---- MODULE Spec2Model ----
(***************************************************************************)
(* Model of the chat relay of src/main.go: the shared maps `connections`   *)
(* and `messageQueues`, the per-connection goroutine of handleWebSocket    *)
(* and sendMessage.  The goroutines share the two maps without any lock,   *)
(* so every access of a shared map is a step of its own and the steps of   *)
(* different sessions interleave freely.                                   *)
(***************************************************************************)
EXTENDS Naturals, Sequences, FiniteSets

\* Bounds of the model.
NSess == 3      \* number of handleWebSocket invocations (session goroutines)
MaxMsgs == 2    \* number of well-formed frames the clients send in total
MaxBad == 1     \* number of malformed frames the clients send in total

Sessions == 1..NSess
Users == {"a", "b"}          \* non-empty user ids
UserIDs == Users \cup {""}   \* values of the user_id query parameter
NoConn == 0                  \* absent key of `connections`

VARIABLES
    connections,    \* main.go:27  user id -> handle (a handle is named by its session)
    messageQueues,  \* main.go:28  user id -> sequence of queued messages
    store,          \* the MongoDB collection: ids of the messages saved
    connState,      \* per handle: "none", "open", "lost" (peer gone), "closed"
    written,        \* per handle: the frames successfully written to it, in order
    pc,             \* per session: position of its goroutine
    userID,         \* per session: local userID (main.go:85)
    snap,           \* per session: the slice the range of main.go:94 iterates
    idx,            \* per session: index of the range loop
    inFlush,        \* per session: sendMessage was called from the flush loop
    message,        \* per session: argument of the running sendMessage call
    conn,           \* per session: local conn of sendMessage (main.go:135)
    rq,             \* per session: messageQueues[receiver] as read at main.go:138
    wg,             \* per session: counter of the handler's WaitGroup (main.go:70)
    failIdx,        \* history: index of the first failed write of the flush, 0 if none
    drained,        \* history: per user, no append since the last clear of the queue
    clock,          \* history: stamps sendMessage's writes and appends in order
    nextId,         \* history: number of well-formed frames read so far, plus 1
    discarded       \* history: number of malformed frames discarded

vars == <<connections, messageQueues, store, connState, written, pc, userID, snap,
          idx, inFlush, message, conn, rq, wg, failIdx, drained, clock, nextId,
          discarded>>

shared == <<connections, messageQueues, store, connState, written>>
locals == <<userID, snap, idx, inFlush, message, conn, rq, wg>>
history == <<failIdx, drained, clock, nextId, discarded>>

NoMsg == [id |-> 0, receiver |-> "", ord |-> 0]

\* main.go:57-58 and the state before any request arrives.
Init ==
    /\ connections = [u \in Users |-> NoConn]
    /\ messageQueues = [u \in Users |-> <<>>]
    /\ store = <<>>
    /\ connState = [s \in Sessions |-> "none"]
    /\ written = [s \in Sessions |-> <<>>]
    /\ pc = [s \in Sessions |-> "idle"]
    /\ userID = [s \in Sessions |-> ""]
    /\ snap = [s \in Sessions |-> <<>>]
    /\ idx = [s \in Sessions |-> 0]
    /\ inFlush = [s \in Sessions |-> FALSE]
    /\ message = [s \in Sessions |-> NoMsg]
    /\ conn = [s \in Sessions |-> NoConn]
    /\ rq = [s \in Sessions |-> <<>>]
    /\ wg = [s \in Sessions |-> 0]
    /\ failIdx = [s \in Sessions |-> 0]
    /\ drained = [u \in Users |-> FALSE]
    /\ clock = 1
    /\ nextId = 1
    /\ discarded = 0

\* User ids are interchangeable: a session may use "b" only once "a" is in use.
FreshUser(uid) == uid = "b" => \E t \in Sessions : userID[t] = "a"

\* Mutant of Connect: a bind does not replace an existing binding.
Connect_KeepsBinding(s) ==
    /\ pc[s] = "idle"
    /\ s > 1 => pc[s - 1] # "idle"
    /\ wg' = [wg EXCEPT ![s] = wg[s] + 1]
    /\ \E ok \in BOOLEAN, uid \in UserIDs :
         IF ~ok
         THEN /\ uid = ""
              /\ pc' = [pc EXCEPT ![s] = "returned"]
              /\ UNCHANGED <<connState, userID, connections>>
         ELSE IF uid = ""
         THEN /\ connState' = [connState EXCEPT ![s] = "closed"]
              /\ pc' = [pc EXCEPT ![s] = "returned"]
              /\ UNCHANGED <<userID, connections>>
         ELSE /\ FreshUser(uid)
              /\ connState' = [connState EXCEPT ![s] = "open"]
              /\ userID' = [userID EXCEPT ![s] = uid]
              /\ connections' = [connections EXCEPT ![uid] = IF @ = NoConn THEN s ELSE @]
              /\ pc' = [pc EXCEPT ![s] = "range"]
    /\ UNCHANGED <<messageQueues, store, written, snap, idx, inFlush,
                   message, conn, rq, history>>

\* Mutant of Connect: a connection without user id is bound under a default
\* user before it is closed.
Connect_BindsFirst(s) ==
    /\ pc[s] = "idle"
    /\ s > 1 => pc[s - 1] # "idle"
    /\ wg' = [wg EXCEPT ![s] = wg[s] + 1]
    /\ \E ok \in BOOLEAN, uid \in UserIDs :
         IF ~ok
         THEN /\ uid = ""
              /\ pc' = [pc EXCEPT ![s] = "returned"]
              /\ UNCHANGED <<connState, userID, connections>>
         ELSE IF uid = ""
         THEN /\ connState' = [connState EXCEPT ![s] = "closed"]
              /\ connections' = [connections EXCEPT !["a"] = s]
              /\ pc' = [pc EXCEPT ![s] = "returned"]
              /\ UNCHANGED userID
         ELSE /\ FreshUser(uid)
              /\ connState' = [connState EXCEPT ![s] = "open"]
              /\ userID' = [userID EXCEPT ![s] = uid]
              /\ connections' = [connections EXCEPT ![uid] = s]
              /\ pc' = [pc EXCEPT ![s] = "range"]
    /\ UNCHANGED <<messageQueues, store, written, snap, idx, inFlush,
                   message, conn, rq, history>>

\* main.go:68-92: the handler adds 1 to its WaitGroup and starts the goroutine,
\* which accepts the socket, reads the user id and binds the handle:
\* connections[userID] = conn.  Only the bind touches shared state.
\* Session slots are taken in order (they are interchangeable).
Connect(s) ==
    /\ pc[s] = "idle"
    /\ s > 1 => pc[s - 1] # "idle"
    /\ wg' = [wg EXCEPT ![s] = wg[s] + 1]
    /\ \E ok \in BOOLEAN, uid \in UserIDs :
         IF ~ok
         THEN \* main.go:78-81: return without a handle
              /\ uid = ""
              /\ pc' = [pc EXCEPT ![s] = "returned"]
              /\ UNCHANGED <<connState, userID, connections>>
         ELSE IF uid = ""
         THEN \* main.go:86-89: return, the deferred Close of main.go:82 runs
              /\ connState' = [connState EXCEPT ![s] = "closed"]
              /\ pc' = [pc EXCEPT ![s] = "returned"]
              /\ UNCHANGED <<userID, connections>>
         ELSE /\ FreshUser(uid)
              /\ connState' = [connState EXCEPT ![s] = "open"]
              /\ userID' = [userID EXCEPT ![s] = uid]
              /\ connections' = [connections EXCEPT ![uid] = s]
              /\ pc' = [pc EXCEPT ![s] = "range"]
    /\ UNCHANGED <<messageQueues, store, written, snap, idx, inFlush,
                   message, conn, rq, history>>

\* main.go:94: the range expression messageQueues[userID] is evaluated once;
\* the loop then iterates that slice, whatever happens to the map entry.
Range(s) ==
    /\ pc[s] = "range"
    /\ snap' = [snap EXCEPT ![s] = messageQueues[userID[s]]]
    /\ IF messageQueues[userID[s]] = <<>>
       THEN /\ pc' = [pc EXCEPT ![s] = "clear"]
            /\ UNCHANGED <<idx, inFlush, message>>
       ELSE /\ idx' = [idx EXCEPT ![s] = 1]
            /\ inFlush' = [inFlush EXCEPT ![s] = TRUE]
            /\ message' = [message EXCEPT ![s] = messageQueues[userID[s]][1]]
            /\ pc' = [pc EXCEPT ![s] = "lookup"]
    /\ UNCHANGED <<shared, userID, wg, conn, rq, history>>

\* main.go:135: conn, ok := connections[message.Receiver]
Lookup(s) ==
    /\ pc[s] = "lookup"
    /\ conn' = [conn EXCEPT ![s] = connections[message[s].receiver]]
    /\ pc' = [pc EXCEPT ![s] =
                IF connections[message[s].receiver] = NoConn THEN "enqRead" ELSE "write"]
    /\ UNCHANGED <<shared, userID, wg, snap, idx, inFlush, message, rq, history>>

\* main.go:138, first half: the operand messageQueues[message.Receiver] is read.
EnqRead(s) ==
    /\ pc[s] = "enqRead"
    /\ rq' = [rq EXCEPT ![s] = messageQueues[message[s].receiver]]
    /\ pc' = [pc EXCEPT ![s] = "enqWrite"]
    /\ UNCHANGED <<shared, userID, wg, snap, idx, inFlush, message, conn, history>>

\* The position sendMessage returns to: the next iteration of the flush loop
\* (main.go:94-96), the clear of main.go:98, or the read loop (main.go:101).
AfterSend(s) ==
    IF inFlush[s]
    THEN IF idx[s] < Len(snap[s])
         THEN /\ idx' = [idx EXCEPT ![s] = idx[s] + 1]
              /\ message' = [message EXCEPT ![s] = snap[s][idx[s] + 1]]
              /\ pc' = [pc EXCEPT ![s] = "lookup"]
              /\ UNCHANGED inFlush
         ELSE /\ inFlush' = [inFlush EXCEPT ![s] = FALSE]
              /\ message' = [message EXCEPT ![s] = NoMsg]
              /\ pc' = [pc EXCEPT ![s] = "clear"]
              /\ UNCHANGED idx
    ELSE /\ message' = [message EXCEPT ![s] = NoMsg]
         /\ pc' = [pc EXCEPT ![s] = "read"]
         /\ UNCHANGED <<idx, inFlush>>

\* Mutant of Enqueued: the message is put at the head of the queue.
Enqueued_AtHead(q, m, stamp) ==
    <<[id |-> m.id, receiver |-> m.receiver, ord |-> stamp]>> \o q

\* The value main.go:138 stores: the queue as read, with the message at its tail.
Enqueued(q, m, stamp) == Append(q, [id |-> m.id, receiver |-> m.receiver, ord |-> stamp])

\* main.go:138, second half, and the return of main.go:140.
EnqWrite(s) ==
    /\ pc[s] = "enqWrite"
    /\ messageQueues' = [messageQueues EXCEPT ![message[s].receiver] =
                            Enqueued(rq[s], message[s], clock)]
    /\ clock' = clock + 1
    /\ drained' = [drained EXCEPT ![message[s].receiver] = FALSE]
    /\ rq' = [rq EXCEPT ![s] = <<>>]
    /\ AfterSend(s)
    /\ UNCHANGED <<connections, store, connState, written, userID, wg, snap, conn,
                   failIdx, nextId, discarded>>

\* The frame a successful conn.Write puts on the wire, with who wrote it and
\* whether it came out of a pending queue (ord is then its enqueue stamp).
Frame(s, m, stamp) ==
    [id |-> m.id, ord |-> IF m.ord = 0 THEN stamp ELSE m.ord, by |-> s, queued |-> m.ord # 0]

\* main.go:151: conn.Write fails when the handle is no longer open.
WriteOk(s) == connState[conn[s]] = "open"

\* Mutant of Write: a failed write falls back to the receiver's queue.
Write_FallsBack(s) ==
    /\ pc[s] = "write"
    /\ IF WriteOk(s)
       THEN /\ written' = [written EXCEPT ![conn[s]] =
                              Append(written[conn[s]], Frame(s, message[s], clock))]
            /\ UNCHANGED messageQueues
       ELSE /\ messageQueues' = [messageQueues EXCEPT ![message[s].receiver] =
                                    Enqueued(@, message[s], clock)]
            /\ UNCHANGED written
    /\ clock' = clock + 1
    /\ conn' = [conn EXCEPT ![s] = NoConn]
    /\ AfterSend(s)
    /\ UNCHANGED <<connections, store, connState, userID, wg, snap, rq, failIdx,
                   drained, nextId, discarded>>

\* main.go:144-157.  json.Marshal of a Message that json.Unmarshal produced
\* does not fail.  A failed write is logged and sendMessage returns.
Write(s) ==
    /\ pc[s] = "write"
    /\ IF WriteOk(s)
       THEN /\ written' = [written EXCEPT ![conn[s]] =
                              Append(written[conn[s]], Frame(s, message[s], clock))]
            /\ clock' = IF message[s].ord = 0 THEN clock + 1 ELSE clock
            /\ UNCHANGED failIdx
       ELSE /\ failIdx' = [failIdx EXCEPT ![s] =
                              IF inFlush[s] /\ failIdx[s] = 0 THEN idx[s] ELSE failIdx[s]]
            /\ UNCHANGED <<written, clock>>
    /\ conn' = [conn EXCEPT ![s] = NoConn]
    /\ AfterSend(s)
    /\ UNCHANGED <<connections, messageQueues, store, connState, userID, wg, snap, rq,
                   drained, nextId, discarded>>

\* Mutant of Clear: the queue is left as it is after the flush.
Clear_KeepsQueue(s) ==
    /\ pc[s] = "clear"
    /\ drained' = [drained EXCEPT ![userID[s]] = TRUE]
    /\ snap' = [snap EXCEPT ![s] = <<>>]
    /\ idx' = [idx EXCEPT ![s] = 0]
    /\ failIdx' = [failIdx EXCEPT ![s] = 0]
    /\ pc' = [pc EXCEPT ![s] = "read"]
    /\ UNCHANGED <<connections, messageQueues, store, connState, written, userID, wg,
                   inFlush, message, conn, rq, clock, nextId, discarded>>

\* main.go:98: messageQueues[userID] = nil
Clear(s) ==
    /\ pc[s] = "clear"
    /\ messageQueues' = [messageQueues EXCEPT ![userID[s]] = <<>>]
    /\ drained' = [drained EXCEPT ![userID[s]] = TRUE]
    /\ snap' = [snap EXCEPT ![s] = <<>>]
    /\ idx' = [idx EXCEPT ![s] = 0]
    /\ failIdx' = [failIdx EXCEPT ![s] = 0]
    /\ pc' = [pc EXCEPT ![s] = "read"]
    /\ UNCHANGED <<connections, store, connState, written, userID, wg, inFlush, message,
                   conn, rq, clock, nextId, discarded>>

\* main.go:160-172: InsertOne appends the message, or fails and appends nothing.
saveMessage(id, dbOk) == IF dbOk THEN Append(store, id) ELSE store

\* Mutant of Disconnect: the handle is not closed when the loop ends.
Disconnect_NoClose(s) ==
    /\ pc[s] = "read"
    /\ connState[s] # "open"
    /\ connections' = [connections EXCEPT ![userID[s]] = NoConn]
    /\ pc' = [pc EXCEPT ![s] = "returned"]
    /\ UNCHANGED <<messageQueues, store, connState, written, locals, history>>

\* main.go:103-107, 128 and the deferred conn.Close of main.go:82: conn.Read
\* fails once the peer is gone, the loop breaks, the binding of the user id is
\* deleted (whichever handle it holds) and the handle is closed.
Disconnect(s) ==
    /\ pc[s] = "read"
    /\ connState[s] # "open"
    /\ connections' = [connections EXCEPT ![userID[s]] = NoConn]
    /\ connState' = [connState EXCEPT ![s] = "closed"]
    /\ pc' = [pc EXCEPT ![s] = "returned"]
    /\ UNCHANGED <<messageQueues, store, written, locals, history>>

\* Mutant of ReadBad: a frame that fails to decode ends the read loop.
ReadBad_Breaks(s) ==
    /\ pc[s] = "read"
    /\ connState[s] = "open"
    /\ discarded < MaxBad
    /\ discarded' = discarded + 1
    /\ connections' = [connections EXCEPT ![userID[s]] = NoConn]
    /\ connState' = [connState EXCEPT ![s] = "closed"]
    /\ pc' = [pc EXCEPT ![s] = "returned"]
    /\ UNCHANGED <<messageQueues, store, written, locals, failIdx, drained, clock, nextId>>

\* main.go:103-115: a frame that json.Unmarshal rejects is logged and skipped.
ReadBad(s) ==
    /\ pc[s] = "read"
    /\ connState[s] = "open"
    /\ discarded < MaxBad
    /\ discarded' = discarded + 1
    /\ UNCHANGED <<shared, pc, locals, failIdx, drained, clock, nextId>>

\* Mutant of ReadMessage: a message that could not be saved is not delivered.
ReadMessage_NeedsSave(s) ==
    /\ pc[s] = "read"
    /\ connState[s] = "open"
    /\ nextId <= MaxMsgs
    /\ \E r \in Users, dbOk \in BOOLEAN :
         /\ store' = saveMessage(nextId, dbOk)
         /\ IF dbOk
            THEN /\ message' = [message EXCEPT ![s] =
                                   [id |-> nextId, receiver |-> r, ord |-> 0]]
                 /\ pc' = [pc EXCEPT ![s] = "lookup"]
            ELSE UNCHANGED <<message, pc>>
    /\ nextId' = nextId + 1
    /\ UNCHANGED <<connections, messageQueues, connState, written, userID, wg, snap, idx,
                   inFlush, conn, rq, failIdx, drained, clock, discarded>>

\* main.go:103-124: a well-formed frame is saved (best effort) and handed to
\* sendMessage.
ReadMessage(s) ==
    /\ pc[s] = "read"
    /\ connState[s] = "open"
    /\ nextId <= MaxMsgs
    /\ \E r \in Users, dbOk \in BOOLEAN :
         /\ store' = saveMessage(nextId, dbOk)
         /\ message' = [message EXCEPT ![s] = [id |-> nextId, receiver |-> r, ord |-> 0]]
    /\ nextId' = nextId + 1
    /\ pc' = [pc EXCEPT ![s] = "lookup"]
    /\ UNCHANGED <<connections, messageQueues, connState, written, userID, wg, snap, idx,
                   inFlush, conn, rq, failIdx, drained, clock, discarded>>

\* The client or the network ends the connection of session s.
PeerClose(s) ==
    /\ connState[s] = "open"
    /\ connState' = [connState EXCEPT ![s] = "lost"]
    /\ UNCHANGED <<connections, messageQueues, store, written, pc, locals, history>>

Next ==
    \E s \in Sessions :
        \/ Connect(s)
        \/ Range(s)
        \/ Lookup(s)
        \/ EnqRead(s)
        \/ EnqWrite(s)
        \/ Write(s)
        \/ Clear(s)
        \/ Disconnect(s)
        \/ ReadBad(s)
        \/ ReadMessage(s)
        \/ PeerClose(s)

Spec == Init /\ [][Next]_vars

\* The accesses of the shared maps that the next step of a session performs.
\* Nothing orders the accesses of different goroutines (no lock, no channel).
ReadsMap(s, m) ==
    \/ m = "connections" /\ pc[s] = "lookup"
    \/ m = "messageQueues" /\ pc[s] \in {"range", "enqRead"}

WritesMap(s, m) ==
    \/ m = "connections" /\ pc[s] = "read" /\ connState[s] # "open"
    \/ m = "messageQueues" /\ pc[s] \in {"enqWrite", "clear"}

\* Two goroutines are at conflicting accesses of the same map (main.go:94,
\* 98, 128, 135, 138): a data race.  The write of main.go:92 belongs to the
\* first step of a session and is not counted: before that step the session
\* is not a goroutine yet.
MapRace(s, t) ==
    /\ s # t
    /\ \E m \in {"connections", "messageQueues"} :
          WritesMap(s, m) /\ (ReadsMap(t, m) \/ WritesMap(t, m))

\* One outcome of a racing map access: the Go runtime detects it and aborts
\* the process ("fatal error: concurrent map writes"); every goroutine ends.
Fatal(s, t) ==
    /\ MapRace(s, t)
    /\ pc' = [x \in Sessions |-> "fatal"]
    /\ UNCHANGED <<shared, locals, history>>

NextFatal ==
    \/ Next
    \/ \E s, t \in Sessions : Fatal(s, t)

\* The relay with the runtime's abort among the outcomes of a map race.
SpecFatal == Init /\ [][NextFatal]_vars

(***************************************************************************)
(* Vocabulary of the properties.                                           *)
(***************************************************************************)
Elems(q) == {q[i] : i \in DOMAIN q}

\* The position of every frame on every handle.
FramePos == UNION {{<<h, i>> : i \in DOMAIN written[h]} : h \in Sessions}

\* How many frames carry message id n.
FrameCount(n) == Cardinality({p \in FramePos : written[p[1]][p[2]].id = n})

AllFrames == UNION {Elems(written[h]) : h \in Sessions}

\* The session has evaluated the range of main.go:94 and not yet run main.go:98.
InWindow(s) == inFlush[s] \/ pc[s] = "clear"

\* This step is the execution of main.go:98 by s.
ClearStep(s) == pc[s] = "clear" /\ pc'[s] = "read"

\* This step is the conn.Write of sendMessage (main.go:151) by s.
WriteStep(s) == pc[s] = "write" /\ pc'[s] # "write"

\* This step is the one in which a sendMessage call of s returns.
ReturnStep(s) == pc[s] \in {"write", "enqWrite"} /\ pc'[s] # pc[s]

\* Effects of the step on the transports and on the queue of the receiver.
WroteFrame(s) ==
    \E h \in Sessions :
        /\ Len(written'[h]) = Len(written[h]) + 1
        /\ written'[h][Len(written'[h])].id = message[s].id
        /\ written'[h][Len(written'[h])].by = s

AppendedToQueue(s) ==
    LET q == messageQueues'[message[s].receiver]
    IN  /\ messageQueues' # messageQueues
        /\ q # <<>>
        /\ q[Len(q)].id = message[s].id

\* The ids of a sequence of messages.
IdsOf(q) == [i \in DOMAIN q |-> q[i].id]

\* a is a subsequence of b (the elements of a occur in b in the same order).
RECURSIVE IsSubSeq(_, _)
IsSubSeq(a, b) ==
    IF a = <<>> THEN TRUE
    ELSE IF b = <<>> THEN FALSE
    ELSE IF Head(a) = Head(b) THEN IsSubSeq(Tail(a), Tail(b))
    ELSE IsSubSeq(a, Tail(b))

(***************************************************************************)
(* Properties.                                                             *)
(***************************************************************************)

\* C1: no loss under concurrent reconnect.  While a session of receiver R is
\* between taking its snapshot of messageQueues[R] and clearing the queue, a
\* message that a sender appends to messageQueues[R] (it is in the queue, not
\* in the snapshot, and on no transport yet) stays in the queue until a drain
\* that contains it removes it, and is never on the wire more than once.
C1_NoLossUnderReconnect ==
    [][\A s \in Sessions :
         InWindow(s) =>
           \A e \in Elems(messageQueues[userID[s]]) \ Elems(snap[s]) :
             FrameCount(e.id) = 0 =>
               \/ e \in Elems(messageQueues'[userID[s]])
               \/ \E t \in Sessions : ClearStep(t) /\ e \in Elems(snap[t])]_vars

\* C2: per-recipient FIFO.  On every handle the frames appear in the order in
\* which sendMessage processed (wrote or enqueued) their messages.
C2_PerRecipientFIFO ==
    \A h \in Sessions : \A i, j \in DOMAIN written[h] :
        i < j => written[h][i].ord <= written[h][j].ord

\* C3: every sendMessage call has exactly one of the two effects: the message
\* is written to a transport, or it is appended to the receiver's queue.
C3_ExactlyOneEffect ==
    [][\A s \in Sessions :
         ReturnStep(s) => (WroteFrame(s) /\ ~AppendedToQueue(s))
                          \/ (~WroteFrame(s) /\ AppendedToQueue(s))]_vars

\* C4: when the write to the bound handle fails, the message is appended to
\* the receiver's queue and the receiver's binding is removed.
C4_FailedWriteFallsBack ==
    [][\A s \in Sessions :
         (WriteStep(s) /\ connState[conn[s]] # "open") =>
            /\ AppendedToQueue(s)
            /\ connections'[message[s].receiver] = NoConn]_vars

\* C5: after a failed write in the connect-time flush, the flush stops, and
\* when the flush step has finished the failed message and all messages after
\* it in the drained batch are in the user's queue in their original order.
C5_FailedFlushRequeues ==
    [][\A s \in Sessions :
         /\ (failIdx[s] > 0 /\ inFlush[s]) => idx'[s] = idx[s]
         /\ (ClearStep(s) /\ failIdx[s] > 0) =>
               IsSubSeq(IdsOf(SubSeq(snap[s], failIdx[s], Len(snap[s]))),
                        IdsOf(messageQueues'[userID[s]]))]_vars

\* The frames that came out of a pending queue with enqueue stamp o.
QueuedFramesOf(o) ==
    {p \in FramePos : written[p[1]][p[2]].queued /\ written[p[1]][p[2]].ord = o}

\* This step is the conn.Write of a message that sendMessage got from the read
\* loop (not from a pending queue) and whose receiver it found bound.
DirectWriteStep(s) == WriteStep(s) /\ message[s].ord = 0

C7_QueuedDeliveredOnConnect ==
    [][/\ \A u \in Users : \A e \in Elems(messageQueues[u]) :
            (\A t \in Sessions : userID[t] # u) => FrameCount(e.id) = 0
       /\ \A s \in Sessions :
            ClearStep(s) =>
              \A e \in Elems(messageQueues[userID[s]]) :
                 /\ Cardinality(QueuedFramesOf(e.ord)) = 1
                 /\ \E i \in DOMAIN written[s] :
                       written[s][i].queued /\ written[s][i].ord = e.ord]_vars

\* C8: the drain at connect is atomic: no queued message is in the drained
\* batch of two sessions.
C8_DrainedAtMostOnce ==
    \A s, t \in Sessions :
        (s # t /\ InWindow(s) /\ InWindow(t)) => Elems(snap[s]) \cap Elems(snap[t]) = {}

\* The stamps of a queue are strictly increasing: it is in insertion order.
InInsertionOrder(q) == \A i, j \in DOMAIN q : i < j => q[i].ord < q[j].ord

\* C9: a pending queue keeps insertion order, and the frames a connect-time
\* flush writes to a transport are in that order.
C9_QueueOrderKept ==
    /\ \A u \in Users : InInsertionOrder(messageQueues[u])
    /\ \A s \in Sessions : InInsertionOrder(snap[s])
    /\ \A h \in Sessions : \A i, j \in DOMAIN written[h] :
          (/\ i < j
           /\ written[h][i].queued /\ written[h][j].queued
           /\ written[h][i].by = written[h][j].by)
          => written[h][i].ord < written[h][j].ord

\* C9 witness: a flush has written two queued messages to the transport of
\* the user who connected.
C9_Witness ==
    \E h \in Sessions :
        /\ Len(written[h]) = 2
        /\ written[h][1].queued /\ written[h][2].queued
        /\ written[h][1].by = h /\ written[h][2].by = h
        /\ written[h][1].id = 1 /\ written[h][2].id = 2

\* C10: reconnect is idempotent.  When a session connects as U after U's
\* queue was cleared by an earlier connect and nothing was appended to it
\* since, its range finds nothing to flush and goes straight to the clear:
\* it writes nothing.
C10_ReconnectIdempotent ==
    [][\A s \in Sessions :
         (pc[s] = "range" /\ pc'[s] # "range" /\ drained[userID[s]]) =>
            /\ snap'[s] = <<>>
            /\ pc'[s] = "clear"
            /\ written' = written]_vars

\* C10 witness: an earlier session of the same user flushed a queued message
\* and has disconnected; the second connect found nothing to flush.
C10_Witness ==
    \E s, t \in Sessions :
        /\ s # t /\ userID[s] = userID[t]
        /\ pc[t] = "returned" /\ written[t] # <<>> /\ written[t][1].queued
        /\ pc[s] = "clear" /\ snap[s] = <<>> /\ drained[userID[s]]
        /\ written[s] = <<>>

\* This step is the one in which the goroutine of s returns.
ExitStep(s) == pc[s] # "returned" /\ pc'[s] = "returned"

\* C11: when a session ends because its read fails or the peer closes, the
\* binding of its user id is removed and its handle is closed; the handle is
\* closed on every exit path after a successful accept (empty user id, read
\* error, also after decode errors).
C11_TeardownReleases ==
    [][\A s \in Sessions :
         ExitStep(s) =>
            /\ connState'[s] \notin {"open", "lost"}
            /\ pc[s] = "read" => /\ connState'[s] = "closed"
                                 /\ connections'[userID[s]] = NoConn]_vars

\* C11 witness: a session that discarded a malformed frame has ended after a
\* read error: its handle is closed and its user id is unbound.
C11_Witness ==
    \E s \in Sessions :
        /\ pc[s] = "returned" /\ userID[s] # ""
        /\ connState[s] = "closed"
        /\ connections[userID[s]] = NoConn
        /\ discarded > 0
        /\ \A t \in Sessions : t # s => pc[t] = "idle"

\* C12: a frame that fails to decode is discarded and changes nothing: no
\* store append, no transport write, no queue append, the session stays in
\* its read loop with its handle and its binding as they were, so that the
\* next well-formed frame is processed as if the bad one had never arrived.
C12_BadFrameDiscarded ==
    [][discarded' # discarded =>
         /\ UNCHANGED <<connections, messageQueues, store, connState, written, pc,
                        locals, failIdx, drained, clock, nextId>>
         /\ \E s \in Sessions : pc'[s] = "read" /\ connState'[s] = "open"]_vars

\* C12 witness: after a malformed frame was discarded, a well-formed frame of
\* the only session was saved and written to its receiver.
C12_Witness ==
    /\ discarded > 0
    /\ pc[1] = "read" /\ connections[userID[1]] = 1
    /\ \A t \in Sessions : t # 1 => pc[t] = "idle"
    /\ store = <<1>>
    /\ Len(written[1]) = 1 /\ written[1][1].id = 1

\* C13: a connection without user id ends without touching the shared state:
\* connections and messageQueues are unchanged, nothing is read, written,
\* enqueued or saved for it.
C13_EmptyUserNoEffect ==
    [][\A s \in Sessions :
         /\ (pc[s] = "idle" /\ pc'[s] = "returned") =>
               UNCHANGED <<connections, messageQueues, store, written, nextId, discarded>>
         /\ userID'[s] = "" =>
               /\ pc'[s] \in {"idle", "returned"}
               /\ written'[s] = <<>>
               /\ \A u \in DOMAIN connections' : connections'[u] # s]_vars

\* C13 witness: a connection without user id was accepted and closed while
\* another user is bound.
C13_Witness ==
    \E s, t \in Sessions :
        /\ pc[s] = "returned" /\ userID[s] = "" /\ connState[s] = "closed"
        /\ pc[t] = "read" /\ connections[userID[t]] = t

\* C14: each decoded message is saved at most once, with no retry, and is
\* handed to sendMessage whether saveMessage failed or not; the session goes on.
C14_SaveBestEffort ==
    [][/\ store' # store => (nextId' = nextId + 1 /\ store' = Append(store, nextId))
       /\ nextId' # nextId =>
            /\ store' \in {store, Append(store, nextId)}
            /\ connState' = connState
            /\ \E s \in Sessions :
                 /\ pc[s] = "read" /\ pc'[s] = "lookup"
                 /\ message'[s].id = nextId]_vars

\* C14 witness: a message whose save failed was delivered, and its session is
\* back in the read loop.
C14_Witness ==
    \E s \in Sessions : \E h \in Sessions :
        /\ pc[s] = "read"
        /\ store = <<>>
        /\ Len(written[h]) = 1 /\ written[h][1].id = 1 /\ written[h][1].by = s

\* The session that bound user u last (sessions bind in the order of their
\* numbers), or NoConn when no session ever bound u.
LastBound(u) ==
    LET S == {s \in Sessions : userID[s] = u}
    IN  IF S = {} THEN NoConn ELSE CHOOSE s \in S : \A t \in S : t <= s

\* A sendMessage call is between its lookup and its return.
Sending(s) == pc[s] \in {"lookup", "enqRead", "enqWrite", "write"}

\* C15: the registry holds one handle per user and a bind overwrites: the
\* entry of a user is never a superseded handle, a bind installs the handle of
\* the binding session, and a sendMessage that looks the user up afterwards
\* takes the handle bound last and writes to that handle only.
C15_LastWriterWins ==
    [][/\ \A u \in Users : connections'[u] \in {NoConn, LastBound(u)'}
       /\ \A s \in Sessions :
            /\ (pc[s] = "idle" /\ pc'[s] = "range") => connections'[userID'[s]] = s
            /\ (pc[s] = "lookup" /\ pc'[s] = "write") =>
                  conn'[s] = LastBound(message[s].receiver)
            /\ WriteStep(s) =>
                  \A h \in Sessions : h # conn[s] => written'[h] = written[h]]_vars

\* C15 witness: two sessions of one user are connected, the registry holds
\* the one bound last, and a message sent to the user after the second bind
\* is on the newer handle only.
C15_Witness ==
    \E s, t \in Sessions :
        /\ s < t /\ userID[s] # "" /\ userID[s] = userID[t]
        /\ connState[s] = "open" /\ connState[t] = "open"
        /\ pc[s] = "read" /\ pc[t] = "read"
        /\ connections[userID[t]] = t
        /\ written[s] = <<>>
        /\ \E i \in DOMAIN written[t] : ~written[t][i].queued

\* C16: during the flush of a session every drained message is written to
\* the handle this session bound: never to the handle of another session,
\* and never appended back to the queue.
C16_FlushToOwnHandle ==
    /\ \A p \in FramePos :
         written[p[1]][p[2]].queued => written[p[1]][p[2]].by = p[1]
    /\ \A s \in Sessions : inFlush[s] => pc[s] \notin {"enqRead", "enqWrite"}

\* C17: while the session that bound user u last is active, the registry
\* entry of u is that session's handle.
C17_RegistryHoldsLiveSession ==
    \A u \in Users :
        (LastBound(u) # NoConn /\ pc[LastBound(u)] # "returned") =>
            connections[u] = LastBound(u)

\* C18: when user u is bound, the bound session has completed its flush and
\* no sendMessage for u is in progress, the queue of u is empty.
C18_NoStrandedMessage ==
    \A u \in Users :
        ( /\ connections[u] # NoConn
          /\ pc[connections[u]] = "read"
          /\ \A t \in Sessions : Sending(t) => message[t].receiver # u )
        => messageQueues[u] = <<>>

\* C19: no two sessions are at conflicting accesses of connections or of
\* messageQueues, and no map access aborts the process.
C19_NoMapRace ==
    /\ \A s, t \in Sessions : ~MapRace(s, t)
    /\ \A s \in Sessions : pc[s] # "fatal"

\* C20: once the goroutine of a handler invocation has finished, the counter
\* of the handler's WaitGroup is zero, so that wg.Wait (main.go:130) returns.
C20_WaitReleased ==
    \A s \in Sessions : pc[s] = "returned" => wg[s] = 0

====
